---- MODULE Spec2Model ----
(***************************************************************************)
(* SimpleFlightDroneController                                             *)
(* (AirLib/include/firmwares/simple_flight/SimpleFlightDroneController.hpp)*)
(*                                                                         *)
(* Three parts of the controller are modelled:                             *)
(*   - the command translator and the facade operations of the command     *)
(*     thread (commandXxx, setOffboardMode, setSimulationMode, setRCData), *)
(*     each a single atomic action since none of them blocks;              *)
(*   - the pose handshake simSetPose / waitForRender / simNotifyRender     *)
(*     between requester threads and the render thread, at the             *)
(*     granularity of mutex acquisitions and of the unlocked accesses.     *)
(* The firmware, the board and the physics body are collaborators whose    *)
(* code is in other files; they are modelled by the contract the           *)
(* controller relies on.                                                   *)
(*                                                                         *)
(* Floats are modelled by integers (only negation and copying are used).   *)
(* Pose coordinates are modelled by strings, "NaN" being not-a-number.     *)
(***************************************************************************)
EXTENDS Integers, Sequences, FiniteSets, TLC

VARIABLES
    \* ---- firmware / board (collaborators) ----
    has_api_control_,       \* firmware offboard api: hasApiControl()
    is_rc_connected_,       \* board: RC-connected flag
    input_channels_,        \* board: input channel index -> value
    \* ---- controller: function-local statics of the four command methods ----
    static_mode,            \* method name -> Uninit or the GoalMode it was built with
    \* ---- controller: render handshake members ----
    render_mutex_,          \* holder of render_mutex_: NoThread, a requester, or RenderThread
    is_pose_update_done_,
    pending_pose_,
    \* ---- physics body ----
    kinematics,             \* physics_body_->getKinematics().pose
    \* ---- threads ----
    pc,                     \* requester thread -> position inside simSetPose
    pc_render,              \* position of the render thread inside simNotifyRender
    kin_local,              \* simNotifyRender's local copy `kinematics`
    \* ---- observation (history) variables ----
    last,                   \* the most recent facade call of the command thread and its outcome
    rc_last_connected,      \* the most recent connected RC sample given to setRCData
    obs                     \* bookkeeping of the pose handshake

api_vars    == <<has_api_control_, is_rc_connected_, input_channels_, static_mode>>
pose_vars   == <<render_mutex_, is_pose_update_done_, pending_pose_, kinematics,
                 pc, pc_render, kin_local, obs>>
vars        == <<has_api_control_, is_rc_connected_, input_channels_, static_mode,
                 render_mutex_, is_pose_update_done_, pending_pose_, kinematics,
                 pc, pc_render, kin_local, last, rc_last_connected, obs>>

-----------------------------------------------------------------------------
(* Bounds *)

\* simSetPose requests issued in one behaviour
MaxRequests == 2
\* spurious wake-ups of render_cond_.wait per behaviour
MaxSpurious == 1

-----------------------------------------------------------------------------
(* Values *)

\* simple_flight::GoalModeType
AngleLevel    == "AngleLevel"
AngleRate     == "AngleRate"
VelocityWorld == "VelocityWorld"
PositionWorld == "PositionWorld"

\* a function-local static that has not been constructed yet
Uninit   == <<>>
NoThread == "none"
RenderThread == "render"
CommandThread == "cmd"
Requesters == {"cmd", "cmd2"}

\* argument triples of the command methods: small, large, negative
Args3 == {<<1, 2, 3>>, <<-20, -10, -30>>}
YawValues == {4}
YawModes == [is_rate : BOOLEAN, yaw_or_rate : YawValues]

\* RCData samples; every field of a sample holds a different value, one sample is
\* out of the nominal [-1, 1] range and negative
RCSamples ==
    { [is_connected |-> TRUE,  roll |-> 1, pitch |-> 2, yaw |-> 3, throttle |-> 4,
       switches |-> <<11, 12, 13, 14, 15, 16, 17, 18>>],
      [is_connected |-> TRUE,  roll |-> -100, pitch |-> -200, yaw |-> 300, throttle |-> -400,
       switches |-> <<0, 1, 0, 1, 2, 0, 1, 0>>],
      [is_connected |-> FALSE, roll |-> 5, pitch |-> 6, yaw |-> 7, throttle |-> 8,
       switches |-> <<21, 22, 23, 24, 25, 26, 27, 28>>] }

\* the channel indices setRCData writes
RcChannels == 0 .. 11

NaN == "NaN"
\* Vector3r positions and Quaternionr orientations a caller passes
Positions    == { <<"x1", "y1", "z1">>, <<NaN, "y2", "z2">> }
Orientations == { <<"w1", "qx1", "qy1", "qz1">>, <<"w2", NaN, "qy2", "qz2">> }
\* the pose of the physics body at start
InitialPose == [position |-> <<"x0", "y0", "z0">>, orientation |-> <<"w0", "qx0", "qy0", "qz0">>]
\* values an uninitialized Pose member may hold
IndeterminatePoses ==
    { [position |-> <<"xg", "yg", "zg">>, orientation |-> <<"wg", "qxg", "qyg", "qzg">>] }
NoPose == [position |-> <<>>, orientation |-> <<>>]


HasNan(v) == \E i \in DOMAIN v : v[i] = NaN

-----------------------------------------------------------------------------
(* Initial state: the controller after its constructor and setGroundTruth.  *)
(* is_pose_update_done_ and pending_pose_ have no initializer and are not   *)
(* assigned by the constructor: their initial values are indeterminate.     *)

NoCall ==
    [op |-> "none", arg |-> <<>>, outcome |-> "returned", exception |-> "none",
     fw_ok |-> TRUE, submitted |-> <<>>, channel_writes |-> <<>>, prev_api |-> FALSE]

NoPass == [had_request |-> FALSE, flag_before |-> TRUE, flag_after |-> TRUE, wrote |-> FALSE]

InitObs ==
    [ n_requests   |-> 0,                                \* simSetPose calls issued
      n_kin_writes |-> 0,                                \* setKinematics calls made
      n_spurious   |-> 0,                                \* spurious wake-ups so far
      req          |-> [t \in Requesters |-> NoPose],    \* the pose each requester asked for
      req_writes   |-> [t \in Requesters |-> 0],         \* setKinematics calls since its request began
      unblocks     |-> [t \in Requesters |-> 0],         \* returns from render_cond_.wait for its request
      applied      |-> [t \in Requesters |-> FALSE],     \* a pass begun after its store wrote its pose
      pass_after   |-> [t \in Requesters |-> FALSE],     \* the running pass began after its store
      kin_before   |-> NoPose,                           \* body pose read by the last writing pass
      pass         |-> NoPass ]                          \* the last completed simNotifyRender pass

Init ==
    /\ has_api_control_ = FALSE
    /\ is_rc_connected_ = FALSE
    /\ input_channels_ = [c \in RcChannels |-> 0]
    /\ static_mode = [m \in {"commandRollPitchZ", "commandVelocity", "commandVelocityZ",
                             "commandPosition"} |-> Uninit]
    /\ render_mutex_ = NoThread
    /\ is_pose_update_done_ \in BOOLEAN
    /\ pending_pose_ \in IndeterminatePoses
    /\ kinematics = InitialPose
    /\ pc = [t \in Requesters |-> "idle"]
    /\ pc_render = "idle"
    /\ kin_local = NoPose
    /\ last = NoCall
    /\ rc_last_connected = [is_connected |-> FALSE]
    /\ obs = InitObs

-----------------------------------------------------------------------------
(* Collaborators: firmware offboard api and board                           *)

\* IOffboardApi::hasApiControl
hasApiControl == has_api_control_

\* IOffboardApi::requestApiControl(message): the value of has_api_control_ afterwards,
\* granted telling whether the firmware accepts the request
requestApiControl(granted) == IF granted THEN TRUE ELSE has_api_control_

\* IOffboardApi::releaseApiControl: the value of has_api_control_ afterwards
releaseApiControl == FALSE

\* IOffboardApi::setGoalAndMode(goal, mode, message): what the firmware is handed
setGoalAndMode(goal, mode) == [goal |-> goal, mode |-> mode]

\* Board::setInputChannel(index, value) on a channel map
setInputChannel(channels, index, value) == [channels EXCEPT ![index] = value]

\* a sequence of setInputChannel calls <<index, value>>, in order
RECURSIVE ApplyChannelWrites(_, _)
ApplyChannelWrites(channels, writes) ==
    IF writes = <<>> THEN channels
    ELSE ApplyChannelWrites(setInputChannel(channels, Head(writes)[1], Head(writes)[2]),
                            Tail(writes))

-----------------------------------------------------------------------------
(* Facade operations of the command thread                                  *)

\* the record of a facade call
Call(op, arg, outcome, exception, fw_ok, submitted, writes, prev_api) ==
    [op |-> op, arg |-> arg, outcome |-> outcome,
     exception |-> exception, fw_ok |-> fw_ok, submitted |-> submitted,
     channel_writes |-> writes, prev_api |-> prev_api]

\* variant: the object is an automatic local, built again by every call
StaticLocal_Rebuilt(method, init) == init

\* a function-local `static T x(init)`: constructed by the first call only
StaticLocal(method, init) ==
    IF static_mode[method] = Uninit THEN init ELSE static_mode[method]

\* yaw_mode.is_rate ? GoalModeType::AngleRate : GoalModeType::AngleLevel
YawGoalMode(yaw_mode) == IF yaw_mode.is_rate THEN AngleRate ELSE AngleLevel

isOffboardMode == hasApiControl

isSimulationMode == TRUE

\* variant: the release branch is missing
setOffboardMode_NoRelease(is_set) ==
    /\ IF is_set
       THEN \E granted \in BOOLEAN :
              /\ has_api_control_' = requestApiControl(granted)
              /\ last' = Call("setOffboardMode", is_set, "returned", "none", granted,
                              <<>>, <<>>, has_api_control_)
       ELSE /\ has_api_control_' = has_api_control_
            /\ last' = Call("setOffboardMode", is_set, "returned", "none", TRUE,
                            <<>>, <<>>, has_api_control_)
    /\ UNCHANGED <<is_rc_connected_, input_channels_, static_mode, rc_last_connected>>
    /\ UNCHANGED pose_vars

setOffboardMode(is_set) ==
    /\ IF is_set
       THEN \E granted \in BOOLEAN :
              /\ has_api_control_' = requestApiControl(granted)
              /\ last' = Call("setOffboardMode", is_set, "returned", "none", granted,
                              <<>>, <<>>, has_api_control_)
       ELSE /\ has_api_control_' = releaseApiControl
            /\ last' = Call("setOffboardMode", is_set, "returned", "none", TRUE,
                            <<>>, <<>>, has_api_control_)
    /\ UNCHANGED <<is_rc_connected_, input_channels_, static_mode, rc_last_connected>>
    /\ UNCHANGED pose_vars

\* variant: the request to leave simulation mode is accepted silently
setSimulationMode_NoThrow(is_set) ==
    /\ last' = Call("setSimulationMode", is_set, "returned", "none", TRUE, <<>>, <<>>, FALSE)
    /\ UNCHANGED <<api_vars, rc_last_connected>>
    /\ UNCHANGED pose_vars

setSimulationMode(is_set) ==
    /\ last' = IF ~is_set
               THEN Call("setSimulationMode", is_set, "threw",
                         "VehicleCommandNotImplementedException", TRUE, <<>>, <<>>, FALSE)
               ELSE Call("setSimulationMode", is_set, "returned", "none", TRUE, <<>>, <<>>, FALSE)
    /\ UNCHANGED <<api_vars, rc_last_connected>>
    /\ UNCHANGED pose_vars

\* the twelve setInputChannel calls of setRCData, pitch passed with the sign given
RcWrites(rcData, pitch) ==
    << <<0, rcData.roll>>, <<1, rcData.yaw>>, <<2, rcData.throttle>>, <<3, pitch>>,
       <<4, rcData.switches[1]>>, <<5, rcData.switches[2]>>,
       <<6, rcData.switches[3]>>, <<7, rcData.switches[4]>>,
       <<8, rcData.switches[5]>>, <<9, rcData.switches[6]>>,
       <<10, rcData.switches[7]>>, <<11, rcData.switches[8]>> >>

\* variant: the channels are written whether or not the sample is connected
setRCData_WritesAlways(rcData) ==
    LET writes == RcWrites(rcData, -rcData.pitch)
    IN /\ is_rc_connected_' = rcData.is_connected
       /\ input_channels_' = ApplyChannelWrites(input_channels_, writes)
       /\ rc_last_connected' = IF rcData.is_connected THEN rcData ELSE rc_last_connected
       /\ last' = Call("setRCData", rcData, "returned", "none", TRUE, <<>>, writes, FALSE)
       /\ UNCHANGED <<has_api_control_, static_mode>>
       /\ UNCHANGED pose_vars

\* variant: pitch is written to channel 3 without the negation
setRCData_PitchNotNegated(rcData) ==
    LET writes == IF rcData.is_connected THEN RcWrites(rcData, rcData.pitch) ELSE <<>>
    IN /\ is_rc_connected_' = rcData.is_connected
       /\ input_channels_' = ApplyChannelWrites(input_channels_, writes)
       /\ rc_last_connected' = IF rcData.is_connected THEN rcData ELSE rc_last_connected
       /\ last' = Call("setRCData", rcData, "returned", "none", TRUE, <<>>, writes, FALSE)
       /\ UNCHANGED <<has_api_control_, static_mode>>
       /\ UNCHANGED pose_vars

setRCData(rcData) ==
    LET writes ==
          IF rcData.is_connected
          THEN RcWrites(rcData, -rcData.pitch)
          ELSE <<>>
    IN /\ is_rc_connected_' = rcData.is_connected
       /\ input_channels_' = ApplyChannelWrites(input_channels_, writes)
       /\ rc_last_connected' = IF rcData.is_connected THEN rcData ELSE rc_last_connected
       /\ last' = Call("setRCData", rcData, "returned", "none", TRUE, <<>>, writes, FALSE)
       /\ UNCHANGED <<has_api_control_, static_mode>>
       /\ UNCHANGED pose_vars

\* the tail shared by the four command methods: setGoalAndMode(&goal, &mode, message),
\* its result and message dropped
\* variant: a rejected submission is raised to the caller
SubmitGoal_Escalates(method, arg, goal, mode) ==
    \E fw_ok \in BOOLEAN :
        /\ static_mode' = [static_mode EXCEPT ![method] = mode]
        /\ last' = Call(method, arg, IF fw_ok THEN "returned" ELSE "threw",
                        IF fw_ok THEN "none" ELSE "VehicleMoveException", fw_ok,
                        <<setGoalAndMode(goal, mode)>>, <<>>, FALSE)
        /\ UNCHANGED <<has_api_control_, is_rc_connected_, input_channels_, rc_last_connected>>
        /\ UNCHANGED pose_vars

\* variant: the goal/mode pair is handed to the firmware twice
SubmitGoal_Twice(method, arg, goal, mode) ==
    \E fw_ok \in BOOLEAN :
        /\ static_mode' = [static_mode EXCEPT ![method] = mode]
        /\ last' = Call(method, arg, "returned", "none", fw_ok,
                        <<setGoalAndMode(goal, mode), setGoalAndMode(goal, mode)>>, <<>>, FALSE)
        /\ UNCHANGED <<has_api_control_, is_rc_connected_, input_channels_, rc_last_connected>>
        /\ UNCHANGED pose_vars

SubmitGoal(method, arg, goal, mode) ==
    \E fw_ok \in BOOLEAN :
        /\ static_mode' = [static_mode EXCEPT ![method] = mode]
        /\ last' = Call(method, arg, "returned", "none", fw_ok,
                        <<setGoalAndMode(goal, mode)>>, <<>>, FALSE)
        /\ UNCHANGED <<has_api_control_, is_rc_connected_, input_channels_, rc_last_connected>>
        /\ UNCHANGED pose_vars

\* variant: the goal is built in argument order, pitch first
commandRollPitchZ_NoSwap(pitch, roll, z, yaw) ==
    LET mode == StaticLocal("commandRollPitchZ",
                            <<AngleLevel, AngleLevel, AngleLevel, PositionWorld>>)
        goal == <<pitch, roll, yaw, z>>
    IN SubmitGoal("commandRollPitchZ", <<pitch, roll, z, yaw>>, goal, mode)

commandRollPitchZ(pitch, roll, z, yaw) ==
    LET mode == StaticLocal("commandRollPitchZ",
                            <<AngleLevel, AngleLevel, AngleLevel, PositionWorld>>)
        goal == <<roll, pitch, yaw, z>>
    IN SubmitGoal("commandRollPitchZ", <<pitch, roll, z, yaw>>, goal, mode)

commandVelocity(vx, vy, vz, yaw_mode) ==
    LET mode == StaticLocal("commandVelocity",
                            <<VelocityWorld, VelocityWorld, YawGoalMode(yaw_mode), VelocityWorld>>)
        goal == <<vx, vy, yaw_mode.yaw_or_rate, vz>>
    IN SubmitGoal("commandVelocity", <<vx, vy, vz, yaw_mode>>, goal, mode)

\* variant: the altitude axis is given the mode of commandVelocity
commandVelocityZ_AltitudeAsVelocity(vx, vy, z, yaw_mode) ==
    LET mode == StaticLocal("commandVelocityZ",
                            <<VelocityWorld, VelocityWorld, YawGoalMode(yaw_mode), VelocityWorld>>)
        goal == <<vx, vy, yaw_mode.yaw_or_rate, z>>
    IN SubmitGoal("commandVelocityZ", <<vx, vy, z, yaw_mode>>, goal, mode)

commandVelocityZ(vx, vy, z, yaw_mode) ==
    LET mode == StaticLocal("commandVelocityZ",
                            <<VelocityWorld, VelocityWorld, YawGoalMode(yaw_mode), PositionWorld>>)
        goal == <<vx, vy, yaw_mode.yaw_or_rate, z>>
    IN SubmitGoal("commandVelocityZ", <<vx, vy, z, yaw_mode>>, goal, mode)

commandPosition(x, y, z, yaw_mode) ==
    LET mode == StaticLocal("commandPosition",
                            <<PositionWorld, PositionWorld, YawGoalMode(yaw_mode), PositionWorld>>)
        goal == <<x, y, yaw_mode.yaw_or_rate, z>>
    IN SubmitGoal("commandPosition", <<x, y, z, yaw_mode>>, goal, mode)

\* the command thread is not inside simSetPose
CommandThreadFree == pc[CommandThread] \in {"idle", "done"}

DoSetOffboardMode   == CommandThreadFree /\ \E b \in BOOLEAN : setOffboardMode(b)
DoSetSimulationMode == CommandThreadFree /\ \E b \in BOOLEAN : setSimulationMode(b)
DoSetRCData         == CommandThreadFree /\ \E s \in RCSamples : setRCData(s)
DoCommandRollPitchZ ==
    CommandThreadFree /\ \E a \in Args3, yaw \in YawValues : commandRollPitchZ(a[1], a[2], a[3], yaw)
DoCommandVelocity ==
    CommandThreadFree /\ \E a \in Args3, ym \in YawModes : commandVelocity(a[1], a[2], a[3], ym)
DoCommandVelocityZ ==
    CommandThreadFree /\ \E a \in Args3, ym \in YawModes : commandVelocityZ(a[1], a[2], a[3], ym)
DoCommandPosition ==
    CommandThreadFree /\ \E a \in Args3, ym \in YawModes : commandPosition(a[1], a[2], a[3], ym)

NextApi ==
    \/ DoSetOffboardMode
    \/ DoSetSimulationMode
    \/ DoSetRCData
    \/ DoCommandRollPitchZ
    \/ DoCommandVelocity
    \/ DoCommandVelocityZ
    \/ DoCommandPosition

\* the facade operations of the command thread alone
SpecApi == Init /\ [][NextApi]_vars

-----------------------------------------------------------------------------
(* Pose handshake: simSetPose / waitForRender on a requester thread t,      *)
(* simNotifyRender on the render thread.                                    *)
(* pc[t]:     idle -> store_orientation -> call_wait -> locked -> parked    *)
(*            -> woken -> recheck -> done (or parked again)                 *)
(* pc_render: idle -> check -> merge_position -> merge_orientation          *)
(*            -> set_kinematics -> notify -> idle                           *)

\* positions of a requester whose pending_pose_ store is complete and whose call has
\* not returned
AfterStore == {"call_wait", "locked", "parked", "woken", "recheck"}

\* a requester inside simSetPose
InCall(t) == pc[t] \notin {"idle", "done"}

\* simSetPose, line 280, first half of the member-wise copy assignment
\* pending_pose_ = Pose(position, orientation); not under render_mutex_
simSetPose_StorePosition(t, position, orientation) ==
    /\ pc[t] \in {"idle", "done"}
    /\ obs.n_requests < MaxRequests
    /\ pending_pose_' = [pending_pose_ EXCEPT !.position = position]
    /\ pc' = [pc EXCEPT ![t] = "store_orientation"]
    /\ obs' = [obs EXCEPT !.n_requests = @ + 1,
                          !.req[t] = [position |-> position, orientation |-> orientation],
                          !.req_writes[t] = 0,
                          !.unblocks[t] = 0,
                          !.applied[t] = FALSE]
    /\ UNCHANGED <<render_mutex_, is_pose_update_done_, kinematics, pc_render, kin_local>>
    /\ UNCHANGED <<api_vars, last, rc_last_connected>>

\* simSetPose, line 280, second half of the copy assignment
simSetPose_StoreOrientation(t) ==
    /\ pc[t] = "store_orientation"
    /\ pending_pose_' = [pending_pose_ EXCEPT !.orientation = obs.req[t].orientation]
    /\ pc' = [pc EXCEPT ![t] = "call_wait"]
    /\ UNCHANGED <<render_mutex_, is_pose_update_done_, kinematics, pc_render, kin_local, obs>>
    /\ UNCHANGED <<api_vars, last, rc_last_connected>>

\* waitForRender, line 306: std::unique_lock<std::mutex> render_wait_lock(render_mutex_)
waitForRender_Lock(t) ==
    /\ pc[t] = "call_wait"
    /\ render_mutex_ = NoThread
    /\ render_mutex_' = t
    /\ pc' = [pc EXCEPT ![t] = "locked"]
    /\ UNCHANGED <<is_pose_update_done_, pending_pose_, kinematics, pc_render, kin_local, obs>>
    /\ UNCHANGED <<api_vars, last, rc_last_connected>>

\* the end of a wait whose predicate holds: waitForRender returns, render_wait_lock is
\* destroyed and simSetPose returns
WaitReturns(t) ==
    /\ render_mutex_' = NoThread
    /\ pc' = [pc EXCEPT ![t] = "done"]
    /\ obs' = [obs EXCEPT !.unblocks[t] = @ + 1]

\* a wait whose predicate is false: render_cond_.wait(lock) releases the mutex and parks
WaitParks(t) ==
    /\ render_mutex_' = NoThread
    /\ pc' = [pc EXCEPT ![t] = "parked"]
    /\ obs' = obs

\* variant: line 307 is missing, the flag of the previous request is still set
waitForRender_FlagNotReset(t) ==
    /\ pc[t] = "locked"
    /\ is_pose_update_done_' = is_pose_update_done_
    /\ IF is_pose_update_done_' THEN WaitReturns(t) ELSE WaitParks(t)
    /\ UNCHANGED <<pending_pose_, kinematics, pc_render, kin_local>>
    /\ UNCHANGED <<api_vars, last, rc_last_connected>>

\* waitForRender, lines 307-308: is_pose_update_done_ = false, then the first
\* evaluation of the wait predicate, all under the lock
waitForRender_SetNotDoneAndWait(t) ==
    /\ pc[t] = "locked"
    /\ is_pose_update_done_' = FALSE
    /\ IF is_pose_update_done_' THEN WaitReturns(t) ELSE WaitParks(t)
    /\ UNCHANGED <<pending_pose_, kinematics, pc_render, kin_local>>
    /\ UNCHANGED <<api_vars, last, rc_last_connected>>

\* std::condition_variable::wait may wake without a notification
waitForRender_SpuriousWake(t) ==
    /\ pc[t] = "parked"
    /\ obs.n_spurious < MaxSpurious
    /\ pc' = [pc EXCEPT ![t] = "woken"]
    /\ obs' = [obs EXCEPT !.n_spurious = @ + 1]
    /\ UNCHANGED <<render_mutex_, is_pose_update_done_, pending_pose_, kinematics,
                   pc_render, kin_local>>
    /\ UNCHANGED <<api_vars, last, rc_last_connected>>

\* line 308: a woken waiter takes the mutex again before it evaluates the predicate
waitForRender_Reacquire(t) ==
    /\ pc[t] = "woken"
    /\ render_mutex_ = NoThread
    /\ render_mutex_' = t
    /\ pc' = [pc EXCEPT ![t] = "recheck"]
    /\ UNCHANGED <<is_pose_update_done_, pending_pose_, kinematics, pc_render, kin_local, obs>>
    /\ UNCHANGED <<api_vars, last, rc_last_connected>>

\* line 308: the predicate [this]{return is_pose_update_done_;} after a wake-up
waitForRender_Recheck(t) ==
    /\ pc[t] = "recheck"
    /\ IF is_pose_update_done_ THEN WaitReturns(t) ELSE WaitParks(t)
    /\ UNCHANGED <<is_pose_update_done_, pending_pose_, kinematics, pc_render, kin_local>>
    /\ UNCHANGED <<api_vars, last, rc_last_connected>>

\* simNotifyRender, line 286: the render tick takes render_mutex_
simNotifyRender_Lock ==
    /\ pc_render = "idle"
    /\ render_mutex_ = NoThread
    /\ render_mutex_' = RenderThread
    /\ pc_render' = "check"
    /\ obs' = [obs EXCEPT !.pass_after = [t \in Requesters |-> pc[t] \in AfterStore],
                          !.pass = [had_request |-> \E t \in Requesters : InCall(t),
                                    flag_before |-> is_pose_update_done_,
                                    flag_after  |-> is_pose_update_done_,
                                    wrote       |-> FALSE]]
    /\ UNCHANGED <<is_pose_update_done_, pending_pose_, kinematics, pc, kin_local>>
    /\ UNCHANGED <<api_vars, last, rc_last_connected>>

\* lines 287-288: if (!is_pose_update_done_) { auto kinematics = getKinematics(); ...
\* otherwise the function returns and the lock is released
simNotifyRender_Check ==
    /\ pc_render = "check"
    /\ IF is_pose_update_done_
       THEN /\ render_mutex_' = NoThread
            /\ pc_render' = "idle"
            /\ UNCHANGED <<kin_local, obs>>
       ELSE /\ kin_local' = kinematics
            /\ obs' = [obs EXCEPT !.kin_before = kinematics]
            /\ pc_render' = "merge_position"
            /\ UNCHANGED render_mutex_
    /\ UNCHANGED <<is_pose_update_done_, pending_pose_, kinematics, pc>>
    /\ UNCHANGED <<api_vars, last, rc_last_connected>>

\* variant: the position is merged coordinate by coordinate
simNotifyRender_MergePositionPerCoordinate ==
    /\ pc_render = "merge_position"
    /\ kin_local' = [kin_local EXCEPT !.position =
                        [i \in DOMAIN pending_pose_.position |->
                            IF pending_pose_.position[i] = NaN THEN kin_local.position[i]
                            ELSE pending_pose_.position[i]]]
    /\ pc_render' = "merge_orientation"
    /\ UNCHANGED <<render_mutex_, is_pose_update_done_, pending_pose_, kinematics, pc, obs>>
    /\ UNCHANGED <<api_vars, last, rc_last_connected>>

\* lines 289-290
simNotifyRender_MergePosition ==
    /\ pc_render = "merge_position"
    /\ kin_local' = IF ~HasNan(pending_pose_.position)
                    THEN [kin_local EXCEPT !.position = pending_pose_.position]
                    ELSE kin_local
    /\ pc_render' = "merge_orientation"
    /\ UNCHANGED <<render_mutex_, is_pose_update_done_, pending_pose_, kinematics, pc, obs>>
    /\ UNCHANGED <<api_vars, last, rc_last_connected>>

\* lines 291-292
simNotifyRender_MergeOrientation ==
    /\ pc_render = "merge_orientation"
    /\ kin_local' = IF ~HasNan(pending_pose_.orientation)
                    THEN [kin_local EXCEPT !.orientation = pending_pose_.orientation]
                    ELSE kin_local
    /\ pc_render' = "set_kinematics"
    /\ UNCHANGED <<render_mutex_, is_pose_update_done_, pending_pose_, kinematics, pc, obs>>
    /\ UNCHANGED <<api_vars, last, rc_last_connected>>

\* the pose a request asks for, on top of the pose the body has
RequestedOver(body, request) ==
    [position    |-> IF HasNan(request.position) THEN body.position ELSE request.position,
     orientation |-> IF HasNan(request.orientation) THEN body.orientation
                     ELSE request.orientation]

\* lines 293-296: setKinematics(kinematics); is_pose_update_done_ = true; unlock()
simNotifyRender_SetKinematics ==
    /\ pc_render = "set_kinematics"
    /\ kinematics' = kin_local
    /\ is_pose_update_done_' = TRUE
    /\ render_mutex_' = NoThread
    /\ pc_render' = "notify"
    /\ kin_local' = NoPose
    /\ obs' = [obs EXCEPT
                 !.n_kin_writes = @ + 1,
                 !.req_writes = [t \in Requesters |-> IF InCall(t) THEN @[t] + 1 ELSE @[t]],
                 !.applied = [t \in Requesters |->
                                 \/ @[t]
                                 \/ /\ obs.pass_after[t]
                                    /\ kin_local = RequestedOver(obs.kin_before, obs.req[t])],
                 !.pass.wrote = TRUE,
                 !.pass.flag_after = TRUE]
    /\ UNCHANGED <<pending_pose_, pc>>
    /\ UNCHANGED <<api_vars, last, rc_last_connected>>

\* variant: render_cond_.notify_one() in place of notify_all()
simNotifyRender_NotifyOne ==
    /\ pc_render = "notify"
    /\ pc_render' = "idle"
    /\ IF \E t \in Requesters : pc[t] = "parked"
       THEN \E t \in Requesters : pc[t] = "parked" /\ pc' = [pc EXCEPT ![t] = "woken"]
       ELSE pc' = pc
    /\ UNCHANGED <<render_mutex_, is_pose_update_done_, pending_pose_, kinematics, kin_local, obs>>
    /\ UNCHANGED <<api_vars, last, rc_last_connected>>

\* variant: render_cond_.notify_all() is missing
simNotifyRender_NoNotify ==
    /\ pc_render = "notify"
    /\ pc_render' = "idle"
    /\ pc' = pc
    /\ UNCHANGED <<render_mutex_, is_pose_update_done_, pending_pose_, kinematics, kin_local, obs>>
    /\ UNCHANGED <<api_vars, last, rc_last_connected>>

\* line 297: render_cond_.notify_all(), after the unlock
simNotifyRender_NotifyAll ==
    /\ pc_render = "notify"
    /\ pc_render' = "idle"
    /\ pc' = [t \in Requesters |-> IF pc[t] = "parked" THEN "woken" ELSE pc[t]]
    /\ UNCHANGED <<render_mutex_, is_pose_update_done_, pending_pose_, kinematics, kin_local, obs>>
    /\ UNCHANGED <<api_vars, last, rc_last_connected>>

CommandSetPose ==
    \E position \in Positions, orientation \in Orientations :
        simSetPose_StorePosition(CommandThread, position, orientation)
CommandStoreOrientation  == simSetPose_StoreOrientation(CommandThread)
CommandLock              == waitForRender_Lock(CommandThread)
CommandSetNotDoneAndWait == waitForRender_SetNotDoneAndWait(CommandThread)
CommandSpuriousWake      == waitForRender_SpuriousWake(CommandThread)
CommandReacquire         == waitForRender_Reacquire(CommandThread)
CommandRecheck           == waitForRender_Recheck(CommandThread)

\* the steps of a simSetPose call already begun that need no mutex acquisition
CommandProgress ==
    \/ CommandStoreOrientation
    \/ CommandSetNotDoneAndWait
    \/ CommandRecheck

\* the steps of simNotifyRender once it holds the mutex
RenderProgress ==
    \/ simNotifyRender_Check
    \/ simNotifyRender_MergePosition
    \/ simNotifyRender_MergeOrientation
    \/ simNotifyRender_SetKinematics
    \/ simNotifyRender_NotifyAll

NextPose ==
    \/ CommandSetPose
    \/ CommandStoreOrientation
    \/ CommandLock
    \/ CommandSetNotDoneAndWait
    \/ CommandSpuriousWake
    \/ CommandReacquire
    \/ CommandRecheck
    \/ simNotifyRender_Lock
    \/ simNotifyRender_Check
    \/ simNotifyRender_MergePosition
    \/ simNotifyRender_MergeOrientation
    \/ simNotifyRender_SetKinematics
    \/ simNotifyRender_NotifyAll

\* one command thread issuing simSetPose, one render thread
SpecPose == Init /\ [][NextPose]_vars

\* the same with a render loop that keeps ticking and threads that keep running.
\* A running thread takes its next step and the render loop starts its next tick
\* (weak fairness); a requester blocked in std::mutex::lock gets the mutex if it is
\* released again and again (strong fairness): the render thread holds it only for
\* the few statements of simNotifyRender and then works on the next frame. No
\* fairness is put on a new simSetPose call nor on spurious wake-ups.
FairPose ==
    /\ SpecPose
    /\ WF_vars(CommandProgress)
    /\ WF_vars(RenderProgress)
    /\ SF_vars(CommandLock)
    /\ SF_vars(CommandReacquire)
    /\ WF_vars(simNotifyRender_Lock)

\* Outside the single-requester contract: every thread of Requesters calls simSetPose,
\* once each, concurrently with the others and with the render thread.
\* the command thread asks for a full pose, every other requester for a pose whose
\* position has a NaN coordinate
RequesterSetPoseOnce(t) ==
    /\ pc[t] = "idle"
    /\ LET position == IF t = CommandThread THEN <<"x1", "y1", "z1">> ELSE <<NaN, "y2", "z2">>
       IN  simSetPose_StorePosition(t, position, <<"w1", "qx1", "qy1", "qz1">>)

\* the steps of a requester's call that need no mutex acquisition
RequesterProgress(t) ==
    \/ simSetPose_StoreOrientation(t)
    \/ waitForRender_SetNotDoneAndWait(t)
    \/ waitForRender_Recheck(t)

NextPoseConcurrent ==
    \/ \E t \in Requesters : RequesterSetPoseOnce(t)
    \/ \E t \in Requesters : simSetPose_StoreOrientation(t)
    \/ \E t \in Requesters : waitForRender_Lock(t)
    \/ \E t \in Requesters : waitForRender_SetNotDoneAndWait(t)
    \/ \E t \in Requesters : waitForRender_SpuriousWake(t)
    \/ \E t \in Requesters : waitForRender_Reacquire(t)
    \/ \E t \in Requesters : waitForRender_Recheck(t)
    \/ simNotifyRender_Lock
    \/ simNotifyRender_Check
    \/ simNotifyRender_MergePosition
    \/ simNotifyRender_MergeOrientation
    \/ simNotifyRender_SetKinematics
    \/ simNotifyRender_NotifyAll

SpecPoseConcurrent == Init /\ [][NextPoseConcurrent]_vars

\* the fairness of FairPose, for every requester
FairPoseConcurrent ==
    /\ SpecPoseConcurrent
    /\ \A t \in Requesters : WF_vars(RequesterProgress(t))
    /\ WF_vars(RenderProgress)
    /\ \A t \in Requesters : SF_vars(waitForRender_Lock(t))
    /\ \A t \in Requesters : SF_vars(waitForRender_Reacquire(t))
    /\ WF_vars(simNotifyRender_Lock)

\* the whole controller: the command thread makes its facade calls between its
\* simSetPose calls. The facade calls read and write only api_vars (firmware_, board_,
\* the static mode objects) and the handshake only pose_vars (render_mutex_,
\* is_pose_update_done_, pending_pose_, physics_body_), so the two halves are checked
\* under SpecApi and SpecPose; their product has more than 10^7 states.
Next == NextApi \/ NextPose

Spec == Init /\ [][Next]_vars


-----------------------------------------------------------------------------
(* Properties of the facade operations                                      *)

YawCommands == {"commandVelocity", "commandVelocityZ", "commandPosition"}

\* C1: every call of commandVelocity, commandVelocityZ and commandPosition submits
\* AngleRate for the yaw axis iff that call's yaw_mode.is_rate is true, AngleLevel
\* otherwise; commandRollPitchZ always submits AngleLevel for yaw.
C1_YawModeFollowsEachCall ==
    /\ last.op \in YawCommands =>
         \A i \in DOMAIN last.submitted :
            last.submitted[i].mode[3] = (IF last.arg[4].is_rate THEN AngleRate ELSE AngleLevel)
    /\ last.op = "commandRollPitchZ" =>
         \A i \in DOMAIN last.submitted : last.submitted[i].mode[3] = AngleLevel

\* the channel layout of a connected sample: 0 roll, 1 yaw, 2 throttle, 3 -pitch,
\* 4..11 switch1..switch8 (entry c + 1 is channel c)
RcLayout(sample) ==
    <<sample.roll, sample.yaw, sample.throttle, 0 - sample.pitch>> \o sample.switches

\* C6: setRCData with a disconnected sample sets the RC-connected flag to false and
\* writes no input channel and nothing else; at any time every channel holds the
\* value of the most recent connected sample, or its initial value.
C6_DisconnectedSampleTouchesNoChannel ==
    /\ [][ \A sample \in RCSamples :
             (~sample.is_connected /\ setRCData(sample)) =>
                /\ is_rc_connected_' = FALSE
                /\ last'.channel_writes = <<>>
                /\ UNCHANGED <<input_channels_, has_api_control_, static_mode>>
                /\ UNCHANGED pose_vars ]_vars
    /\ [](\A c \in RcChannels :
            input_channels_[c] = (IF rc_last_connected.is_connected
                                  THEN RcLayout(rc_last_connected)[c + 1] ELSE 0))

C6_Witness ==
    /\ last.op = "setRCData"
    /\ ~last.arg.is_connected
    /\ rc_last_connected.is_connected
    /\ ~is_rc_connected_
    /\ input_channels_[3] = 200

\* C7: setRCData with a connected sample sets the RC-connected flag and writes exactly
\* the channels 0..11, once each: roll, yaw, throttle, negated pitch, switch1..switch8,
\* the values unscaled and unclamped.
C7_ConnectedSampleLayout ==
    (last.op = "setRCData" /\ last.arg.is_connected) =>
        /\ is_rc_connected_
        /\ Len(last.channel_writes) = 12
        /\ {last.channel_writes[i][1] : i \in DOMAIN last.channel_writes} = 0 .. 11
        /\ \A i \in DOMAIN last.channel_writes :
              last.channel_writes[i][2] = RcLayout(last.arg)[last.channel_writes[i][1] + 1]
        /\ \A c \in 0 .. 11 : input_channels_[c] = RcLayout(last.arg)[c + 1]
        /\ input_channels_[0] = last.arg.roll
        /\ input_channels_[1] = last.arg.yaw
        /\ input_channels_[2] = last.arg.throttle
        /\ input_channels_[3] + last.arg.pitch = 0
        /\ DOMAIN input_channels_ = 0 .. 11

C7_Witness ==
    /\ last.op = "setRCData"
    /\ last.arg.is_connected
    /\ last.arg.pitch = -200
    /\ input_channels_[3] = 200
    /\ input_channels_[0] = -100
    /\ input_channels_[8] = 2

\* C8: setSimulationMode(false) raises the not-implemented error and changes no state;
\* setSimulationMode(true) returns normally; isSimulationMode() is true throughout.
C8_LeavingSimulationModeUnsupported ==
    [][ /\ setSimulationMode(FALSE) =>
              /\ last'.outcome = "threw"
              /\ last'.exception = "VehicleCommandNotImplementedException"
              /\ UNCHANGED <<api_vars, rc_last_connected>>
              /\ UNCHANGED pose_vars
        /\ setSimulationMode(TRUE) =>
              /\ last'.outcome = "returned"
              /\ last'.exception = "none"
        /\ isSimulationMode ]_vars

C8_Witness ==
    /\ last.op = "setSimulationMode"
    /\ last.arg = FALSE
    /\ last.outcome = "threw"
    /\ has_api_control_

\* C9: after a setOffboardMode(true) the firmware accepts, isOffboardMode() is true;
\* after setOffboardMode(false) it is false whatever it was before; the call returns
\* with the command thread outside the handshake and not holding render_mutex_.
C9_OffboardModeFollowsRequest ==
    last.op = "setOffboardMode" =>
        /\ (last.arg /\ last.fw_ok) => isOffboardMode
        /\ ~last.arg => ~isOffboardMode
        /\ last.outcome = "returned"
        /\ render_mutex_ # CommandThread
        /\ CommandThreadFree

C9_Witness ==
    /\ last.op = "setOffboardMode"
    /\ ~last.arg
    /\ last.prev_api
    /\ ~isOffboardMode

\* C10: when the firmware rejects a setGoalAndMode submission or requestApiControl,
\* the calling method still returns normally and raises nothing; after a rejected
\* setOffboardMode(true), isOffboardMode() reports the value hasApiControl had before.
C10_SoftFailureNotEscalated ==
    ~last.fw_ok =>
        /\ last.op \in YawCommands \cup {"commandRollPitchZ", "setOffboardMode"}
        /\ last.outcome = "returned"
        /\ last.exception = "none"
        /\ last.op = "setOffboardMode" => isOffboardMode = last.prev_api

C10_Witness ==
    /\ ~last.fw_ok
    /\ last.op = "commandPosition"
    /\ Len(last.submitted) = 1

-----------------------------------------------------------------------------
(* Properties of the command translator                                     *)

CommandMethods == YawCommands \cup {"commandRollPitchZ"}

\* C11: the modes submitted for axis 1, axis 2 and axis 4 are fixed by the command
\* shape, whatever the argument values and whatever earlier calls submitted:
\* commandRollPitchZ (AngleLevel, AngleLevel, PositionWorld), commandVelocity
\* (VelocityWorld x 3), commandVelocityZ (VelocityWorld, VelocityWorld, PositionWorld),
\* commandPosition (PositionWorld x 3).
C11_NonYawModesFixedByShape ==
    \A i \in DOMAIN last.submitted :
        LET mode == last.submitted[i].mode
            fixed == <<mode[1], mode[2], mode[4]>>
        IN /\ last.op = "commandRollPitchZ" => fixed = <<AngleLevel, AngleLevel, PositionWorld>>
           /\ last.op = "commandVelocity" => fixed = <<VelocityWorld, VelocityWorld, VelocityWorld>>
           /\ last.op = "commandVelocityZ" => fixed = <<VelocityWorld, VelocityWorld, PositionWorld>>
           /\ last.op = "commandPosition" => fixed = <<PositionWorld, PositionWorld, PositionWorld>>

\* a commandVelocityZ call with negative, large arguments made after calls of every
\* other command shape
C11_Witness ==
    /\ last.op = "commandVelocityZ"
    /\ last.arg[1] = -20
    /\ Len(last.submitted) = 1
    /\ last.submitted[1].mode[4] = PositionWorld
    /\ \A m \in CommandMethods : static_mode[m] # Uninit

\* C12: the goal submitted carries the call's own arguments: commandRollPitchZ(pitch,
\* roll, z, yaw) submits (roll, pitch, yaw, z); commandVelocity, commandVelocityZ and
\* commandPosition (a, b, c, ym) submit (a, b, ym.yaw_or_rate, c).
C12_GoalCarriesOwnArguments ==
    \A i \in DOMAIN last.submitted :
        LET goal == last.submitted[i].goal
            arg  == last.arg
        IN /\ last.op = "commandRollPitchZ" =>
                (goal[1] = arg[2] /\ goal[2] = arg[1] /\ goal[3] = arg[4] /\ goal[4] = arg[3])
           /\ last.op \in YawCommands =>
                (goal[1] = arg[1] /\ goal[2] = arg[2] /\ goal[3] = arg[4].yaw_or_rate
                 /\ goal[4] = arg[3])

\* a commandRollPitchZ(pitch = 1, roll = 2, z = 3, yaw = 4) made after a
\* commandRollPitchZ call with other arguments
C12_Witness ==
    /\ last.op = "commandRollPitchZ"
    /\ last.arg = <<1, 2, 3, 4>>
    /\ Len(last.submitted) = 1
    /\ last.submitted[1].goal = <<2, 1, 4, 3>>
    /\ static_mode["commandRollPitchZ"] # Uninit
    /\ static_mode["commandPosition"] # Uninit

\* C13: every call of a command method makes exactly one setGoalAndMode submission,
\* which carries a goal and a mode together; no other facade call submits anything.
C13_ExactlyOneSubmission ==
    /\ last.op \in CommandMethods =>
          /\ Len(last.submitted) = 1
          /\ DOMAIN last.submitted[1] = {"goal", "mode"}
          /\ Len(last.submitted[1].goal) = 4
          /\ Len(last.submitted[1].mode) = 4
    /\ last.op \notin CommandMethods => last.submitted = <<>>

C13_Witness ==
    /\ last.op = "commandVelocity"
    /\ ~last.fw_ok
    /\ Len(last.submitted) = 1
    /\ last.submitted[1].goal = <<-20, -10, 4, -30>>

\* C15: the mode object of a command method is never changed once built: the mode a
\* call submits is the one the method's first call submitted, and a call of one method
\* leaves the mode objects of the other methods alone.
C15_ModeObjectNeverMutated ==
    [][ \A m \in CommandMethods :
          /\ static_mode[m] # Uninit => static_mode'[m] = static_mode[m]
          /\ (last' # last /\ last'.op = m) =>
                /\ static_mode'[m] # Uninit
                /\ \A i \in DOMAIN last'.submitted :
                      last'.submitted[i].mode = static_mode'[m]
                /\ \A o \in CommandMethods \ {m} : static_mode'[o] = static_mode[o] ]_vars

\* a second commandPosition call whose yaw_mode differs from the first call's
C15_Witness ==
    /\ last.op = "commandPosition"
    /\ last.arg[4].is_rate
    /\ static_mode["commandPosition"][3] = AngleLevel
    /\ last.submitted[1].mode = static_mode["commandPosition"]

-----------------------------------------------------------------------------
(* Properties of the pose handshake                                         *)

\* C2: when a simSetPose call has returned, the body's position is the requested one if
\* it holds no NaN and otherwise the one the body had when simNotifyRender ran, the
\* same for the orientation, the kinematics were written exactly once for the request
\* and the requester was unblocked exactly once.
C2_PoseAppliedExactlyOnce ==
    pc[CommandThread] = "done" =>
        /\ kinematics.position =
              (IF HasNan(obs.req[CommandThread].position)
               THEN obs.kin_before.position ELSE obs.req[CommandThread].position)
        /\ kinematics.orientation =
              (IF HasNan(obs.req[CommandThread].orientation)
               THEN obs.kin_before.orientation ELSE obs.req[CommandThread].orientation)
        /\ obs.req_writes[CommandThread] = 1
        /\ obs.unblocks[CommandThread] = 1

\* C3: a simNotifyRender that runs while no simSetPose request is pending writes no
\* kinematics and leaves is_pose_update_done_ as it was, from the first state on; the
\* number of kinematics writes never exceeds the number of simSetPose requests.
C3_NotifyWithoutRequestIsNoOp ==
    /\ ~obs.pass.had_request =>
          /\ ~obs.pass.wrote
          /\ obs.pass.flag_after = obs.pass.flag_before
    /\ obs.n_kin_writes <= obs.n_requests

\* C4: a simSetPose call has returned only if a simNotifyRender that took the mutex
\* after the request was stored wrote the kinematics for that request; without such a
\* render pass the call does not return.
C4_ReturnOnlyAfterRenderApplied ==
    \A t \in Requesters :
        pc[t] = "done" => (obs.applied[t] /\ obs.req_writes[t] >= 1)

C4_Witness ==
    /\ pc[CommandThread] = "done"
    /\ obs.applied[CommandThread]
    /\ obs.n_requests = 2
    /\ obs.n_spurious = 1
    /\ kinematics.position = <<"x1", "y1", "z1">>

\* C5: with a render thread that keeps calling simNotifyRender, every simSetPose call
\* of the command thread eventually returns.
C5_SetPoseEventuallyReturns ==
    InCall(CommandThread) ~> (pc[CommandThread] = "done")

C5_Witness ==
    /\ pc[CommandThread] = "done"
    /\ obs.unblocks[CommandThread] = 1
    /\ obs.n_requests = 2

\* C14: every read and every write of is_pose_update_done_ and of pending_pose_ is made
\* by a thread that holds render_mutex_, so simNotifyRender never reads pending_pose_
\* while simSetPose is writing it.
C14_MutexGuardsFlagAndPendingPose ==
    [][ /\ \A t \in Requesters :
              \* the two halves of the store of pending_pose_
              (\/ pc[t] \in {"idle", "done"} /\ pc'[t] = "store_orientation"
               \/ pc[t] = "store_orientation" /\ pc'[t] = "call_wait")
                 => render_mutex_ = t
        /\ is_pose_update_done_' # is_pose_update_done_ => render_mutex_ # NoThread
        /\ pc_render \in {"check", "merge_position", "merge_orientation", "set_kinematics"} =>
              /\ render_mutex_ = RenderThread
              /\ \A t \in Requesters : pc[t] # "store_orientation" ]_vars

\* C16: the pending position replaces the body's position as a whole, and only when
\* none of its coordinates is NaN; likewise the orientation. A request whose position
\* and orientation both hold a NaN still returns only after a simNotifyRender that
\* began after it was stored has made a setKinematics write, and that write leaves the
\* pose as it was read.
C16_PartialUpdateIsPerField ==
    /\ [][ /\ (pc_render = "merge_position" /\ pc_render' = "merge_orientation") =>
                 /\ kin_local'.position =
                       (IF HasNan(pending_pose_.position) THEN kin_local.position
                        ELSE pending_pose_.position)
                 /\ kin_local'.orientation = kin_local.orientation
           /\ (pc_render = "merge_orientation" /\ pc_render' = "set_kinematics") =>
                 /\ kin_local'.orientation =
                       (IF HasNan(pending_pose_.orientation) THEN kin_local.orientation
                        ELSE pending_pose_.orientation)
                 /\ kin_local'.position = kin_local.position ]_vars
    /\ [](pc[CommandThread] = "done" =>
            LET request == obs.req[CommandThread]
            IN /\ HasNan(request.position) => kinematics.position = obs.kin_before.position
               /\ HasNan(request.orientation) =>
                     kinematics.orientation = obs.kin_before.orientation
               /\ (HasNan(request.position) /\ HasNan(request.orientation)) =>
                     /\ obs.applied[CommandThread]
                     /\ obs.req_writes[CommandThread] >= 1
                     /\ obs.unblocks[CommandThread] = 1
                     /\ kinematics = obs.kin_before)

\* a returned request with one NaN coordinate in the position and one in the
\* orientation, made after a request that moved the body
C16_Witness ==
    /\ pc[CommandThread] = "done"
    /\ obs.n_requests = 2
    /\ obs.req[CommandThread].position = <<NaN, "y2", "z2">>
    /\ obs.req[CommandThread].orientation = <<"w2", NaN, "qy2", "qz2">>
    /\ kinematics.position = <<"x1", "y1", "z1">>
    /\ kinematics.orientation = <<"w1", "qx1", "qy1", "qz1">>
    /\ obs.applied[CommandThread]

\* C17: with two threads each making one simSetPose call concurrently and a render
\* thread that keeps calling simNotifyRender, both calls eventually return.
C17_ConcurrentRequestsBothReturn ==
    \A t \in Requesters : InCall(t) ~> (pc[t] = "done")

\* both calls have returned after a single setKinematics write, which applied the
\* pose stored last: the position the command thread asked for never reached the body
C17_Witness ==
    /\ \A t \in Requesters : pc[t] = "done" /\ obs.unblocks[t] = 1
    /\ obs.n_kin_writes = 1
    /\ obs.req[CommandThread].position = <<"x1", "y1", "z1">>
    /\ HasNan(pending_pose_.position)
    /\ kinematics.position = <<"x0", "y0", "z0">>

====
